---- MODULE Spec2Model ----
(***************************************************************************)
(* Labook posts back end: PostsBusiness (src/unnamed/part_000) over the    *)
(* relational store of src/src/database/dados.sql.                         *)
(*                                                                         *)
(* The store is the three tables users, posts and likes_dislikes.  The     *)
(* business layer is modelled twice over the same store operators: once    *)
(* with every handler as one step (Spec, SpecLikes, SpecFail) and once     *)
(* with every awaited store call of putLike as its own step (SpecConc).    *)
(* Messages are the source's strings with their accents dropped.           *)
(***************************************************************************)
EXTENDS Integers, FiniteSets, Sequences, TLC

VARIABLES users, posts, likes_dislikes, last, pc, loc

vars == <<users, posts, likes_dislikes, last, pc, loc>>
store == <<users, posts, likes_dislikes>>

----------------------------------------------------------------------------
(* Bounds *)

\* the times the clock may show when a call reads it are 1..MaxTime
MaxTime == 1
\* counters are explored within -MaxCount..MaxCount
MaxCount == 2
\* rows of likes_dislikes with the same (user_id, post_id, like)
MaxRows == 2

----------------------------------------------------------------------------
(* Values *)

\* the absent row, the absent payload
NULL == [null |-> TRUE]
undefined == "undefined"
\* updated_at of a post that was never edited
NoTime == 0

\* users(id, role) as seeded
UserRows == { [id |-> "u001", name |-> "Fulano", role |-> "NORMAL"],
              [id |-> "u002", name |-> "Beltrana", role |-> "NORMAL"],
              [id |-> "u003", name |-> "Astrodev", role |-> "ADMIN"] }
UserIds == { u.id : u \in UserRows }

\* ids the id generator may return
PostIds == {"p001", "p002"}
Contents == {"lindo dia.", "hoje vai ser demais."}
Queries == Contents \cup {undefined}
\* what the clock may show
Times == 1..MaxTime

\* the tokens in use: one of a NORMAL user, one of the ADMIN, one that is
\* valid for a user that is no longer stored ("u004"), and an invalid one
Tokens == {"t-u001", "t-u003", "t-u004", "t-invalid"}
\* the same with a token of the second NORMAL user
AllTokens == Tokens \cup {"t-u002"}

\* TokenManager.getPayload: the payload of a valid token, NULL otherwise
getPayload(token) ==
    CASE token = "t-u001" -> [id |-> "u001", role |-> "NORMAL"]
      [] token = "t-u002" -> [id |-> "u002", role |-> "NORMAL"]
      [] token = "t-u003" -> [id |-> "u003", role |-> "ADMIN"]
      [] token = "t-u004" -> [id |-> "u004", role |-> "NORMAL"]
      [] OTHER -> NULL

ActorIds == { getPayload(t).id : t \in AllTokens \ {"t-invalid"} }

\* error classes thrown by the business layer; StoreError is an exception
\* raised by the store client itself
OK == "OK"
BadRequestError == "BadRequestError"
NotFoundError == "NotFoundError"
StoreError == "StoreError"

\* the keys of likes_dislikes rows
LikeKeys == ActorIds \X PostIds \X BOOLEAN

----------------------------------------------------------------------------
(* PostsDatabase / UserDatabase: the store operations *)

\* posts row inserted with the column defaults
NewPostRow(newPost, now) ==
    [creator_id |-> newPost.creator_id, content |-> newPost.content,
     likes |-> 0, dislikes |-> 0, created_at |-> now, updated_at |-> NoTime]

getPostByIdDBForm(P, id) == P[id]

getPostByIdOutputForm(P, U, id) ==
    IF P[id] = NULL THEN NULL
    ELSE LET owner == CHOOSE u \in U : u.id = P[id].creator_id
         IN [id |-> id, creator_id |-> P[id].creator_id, name |-> owner.name,
             content |-> P[id].content, likes |-> P[id].likes,
             dislikes |-> P[id].dislikes, created_at |-> P[id].created_at,
             updated_at |-> P[id].updated_at]

\* posts whose content matches the query (all of them without a query),
\* joined with the creator's name
getPosts(P, U, query) ==
    { getPostByIdOutputForm(P, U, id) :
        id \in { i \in PostIds : /\ P[i] # NULL
                                 /\ (query = undefined \/ P[i].content = query) } }

findUserById(U, id) ==
    IF \E u \in U : u.id = id THEN CHOOSE u \in U : u.id = id ELSE NULL

\* the insert is refused when creator_id references no user
createPostRefused(U, newPost) == \A u \in U : u.id # newPost.creator_id

createPost(P, newPost, now) ==
    [P EXCEPT ![newPost.id] = NewPostRow(newPost, now)]

editPost(P, inputDB) ==
    IF P[inputDB.idToEdit] = NULL THEN P
    ELSE [P EXCEPT ![inputDB.idToEdit].content = inputDB.newPost.content,
                   ![inputDB.idToEdit].updated_at = inputDB.newPost.updated_at]

deletePost(P, id) == [P EXCEPT ![id] = NULL]

\* a deletion that leaves the rows of the post behind
cascadePost_None(R, id) == R

\* the rows of likes_dislikes that go with a deleted post
cascadePost(R, id) == [k \in LikeKeys |-> IF k[2] = id THEN 0 ELSE R[k]]

\* rows of (userId, postId); the first of them is what getLike returns, and
\* with rows of both kinds either may be the first
rowsOf(R, userId, postId) == R[<<userId, postId, TRUE>>] + R[<<userId, postId, FALSE>>]

getLike(R, in) ==
    IF rowsOf(R, in.userId, in.postId) = 0 THEN {NULL}
    ELSE { [user_id |-> in.userId, post_id |-> in.postId, like |-> l] :
             l \in { b \in BOOLEAN : R[<<in.userId, in.postId, b>>] > 0 } }

\* the insert is refused when post_id or user_id references no row
createLikeRefused(P, U, in) ==
    P[in.postId] = NULL \/ \A u \in U : u.id # in.userId

createLike(R, in) ==
    [R EXCEPT ![<<in.userId, in.postId, in.like>>] = @ + 1]

deleteLike(R, in) ==
    [R EXCEPT ![<<in.userId, in.postId, TRUE>>] = 0,
              ![<<in.userId, in.postId, FALSE>>] = 0]

changeLike(R, in) ==
    [R EXCEPT ![<<in.userId, in.postId, in.like>>] = rowsOf(R, in.userId, in.postId),
              ![<<in.userId, in.postId, ~in.like>>] = 0]

addLikeInPost(P, in) ==
    IF P[in.postId] = NULL THEN P
    ELSE IF in.like THEN [P EXCEPT ![in.postId].likes = @ + 1]
         ELSE [P EXCEPT ![in.postId].dislikes = @ + 1]

decreaseLikeInPost(P, in) ==
    IF P[in.postId] = NULL THEN P
    ELSE IF in.like THEN [P EXCEPT ![in.postId].likes = @ - 1]
         ELSE [P EXCEPT ![in.postId].dislikes = @ - 1]

overwriteLikeInPost(P, in) ==
    IF P[in.postId] = NULL THEN P
    ELSE IF in.like
         THEN [P EXCEPT ![in.postId].likes = @ + 1, ![in.postId].dislikes = @ - 1]
         ELSE [P EXCEPT ![in.postId].dislikes = @ + 1, ![in.postId].likes = @ - 1]

----------------------------------------------------------------------------
(* What a finished call leaves behind *)

NoCall == <<>>
NoPre == [likes |-> 0, dislikes |-> 0, reaction |-> "unknown"]

\* the reaction of userId on postId: "none", "like", "dislike", or "many"
\* when likes_dislikes holds more than one row for the pair
reactionOf(R, userId, postId) ==
    CASE rowsOf(R, userId, postId) = 0 -> "none"
      [] rowsOf(R, userId, postId) > 1 -> "many"
      [] R[<<userId, postId, TRUE>>] = 1 -> "like"
      [] OTHER -> "dislike"

\* counters and reaction of the pair as a putLike call finds them
preOf(P, R, userId, postId) ==
    [likes |-> P[postId].likes, dislikes |-> P[postId].dislikes,
     reaction |-> reactionOf(R, userId, postId)]

\* op ended with status and message after n store calls, leaving posts P2
\* and likes_dislikes R2.  call and pre are kept for putLike calls that
\* reached their writes, call for a createPost call that inserted, call and
\* the counters found for a deletePost call that deleted; first is what the
\* call before this one found, kept
\* when both are the same successful putLike call and that one found no
\* reaction
Return(op, status, message, n, output, call, pre, P2, R2) ==
    /\ posts' = P2
    /\ likes_dislikes' = R2
    /\ last' = [op |-> op, status |-> status, message |-> message,
                accesses |-> n, output |-> output, call |-> call, pre |-> pre,
                first |-> IF op = "putLike" /\ status = OK
                             /\ last.op = "putLike" /\ last.status = OK
                             /\ last.call = call /\ last.pre.reaction = "none"
                          THEN last.pre
                          ELSE NoPre]
    /\ UNCHANGED <<users, pc, loc>>

\* op threw after n store calls, none of them a write
Throw(op, status, message, n) ==
    Return(op, status, message, n, {}, NoCall, NoPre, posts, likes_dislikes)

----------------------------------------------------------------------------
(* PostsBusiness: the checks the handlers share *)

\* !payload
tokenRejected(payload) == payload = NULL

\* the ownership check with the ADMIN let through
notOwner_AdminMay(payload, post) ==
    payload.role # "ADMIN" /\ payload.id # post.creator_id

\* payload.id !== post.creator_id
notOwner(payload, post) == payload.id # post.creator_id

\* the self-reaction check left out
ownPost_Never(postDB, userId) == FALSE

\* postDB?.creator_id === userId
ownPost(postDB, userId) == postDB.creator_id = userId

\* the branches with the comparison of the stored kind left out
putLikeBranch_NeverRemove(likeDB, like) ==
    IF likeDB = NULL THEN "create" ELSE "change"

\* the branch putLike takes: no row -> create; a row of the requested kind
\* -> remove; a row of the other kind -> change
putLikeBranch(likeDB, like) ==
    IF likeDB = NULL THEN "create"
    ELSE IF likeDB.like = like THEN "remove" ELSE "change"

\* the row writes with the change branch inserting a second row
putLikeRow_InsertOnChange(R, in, branch) ==
    CASE branch = "create" -> createLike(R, in)
      [] branch = "remove" -> deleteLike(R, in)
      [] OTHER -> createLike(R, in)

\* the first awaited write of the branch, on likes_dislikes
putLikeRow(R, in, branch) ==
    CASE branch = "create" -> createLike(R, in)
      [] branch = "remove" -> deleteLike(R, in)
      [] OTHER -> changeLike(R, in)

\* the counter writes with the remove branch incrementing
putLikeCounter_AlwaysAdd(P, in, branch) ==
    CASE branch = "create" -> addLikeInPost(P, in)
      [] branch = "remove" -> addLikeInPost(P, in)
      [] OTHER -> overwriteLikeInPost(P, in)

\* the counter writes of the create branch reaching every stored post
putLikeCounter_EveryPost(P, in, branch) ==
    CASE branch = "create" ->
            [id \in PostIds |-> addLikeInPost(P, [in EXCEPT !.postId = id])[id]]
      [] branch = "remove" -> decreaseLikeInPost(P, in)
      [] OTHER -> overwriteLikeInPost(P, in)

\* the second awaited write of the branch, on the post's counters
putLikeCounter(P, in, branch) ==
    CASE branch = "create" -> addLikeInPost(P, in)
      [] branch = "remove" -> decreaseLikeInPost(P, in)
      [] OTHER -> overwriteLikeInPost(P, in)

\* the messages of the remove and change branches exchanged
putLikeMessage_Swapped(branch) ==
    CASE branch = "create" -> "Like/Dislike enviado com sucesso."
      [] branch = "remove" -> "Like/Dislike alterado com sucesso."
      [] OTHER -> "Like/Dislike removido com sucesso."

putLikeMessage(branch) ==
    CASE branch = "create" -> "Like/Dislike enviado com sucesso."
      [] branch = "remove" -> "Like/Dislike removido com sucesso."
      [] OTHER -> "Like/Dislike alterado com sucesso."

\* the mapping with the creator's id taken from the post's id
toOutputDTO_CreatorFromId(post) ==
    [id |-> post.id, content |-> post.content, likes |-> post.likes,
     dislikes |-> post.dislikes, createdAt |-> post.created_at,
     updatedAt |-> post.updated_at,
     creator |-> [id |-> post.id, name |-> post.name]]

\* Post -> GetPostsOutputDTO
toOutputDTO(post) ==
    [id |-> post.id, content |-> post.content, likes |-> post.likes,
     dislikes |-> post.dislikes, createdAt |-> post.created_at,
     updatedAt |-> post.updated_at,
     creator |-> [id |-> post.creator_id, name |-> post.name]]

----------------------------------------------------------------------------
(* PostsBusiness: every handler as one step.  failAt = k > 0 makes the     *)
(* k-th store call of the handler throw; failAt = 0 lets every call        *)
(* succeed.                                                                *)

\* getPosts reading the store before it looks at the token
GetPosts_ReadsFirst(token, query, failAt) ==
    LET isTokenValid == getPayload(token)
    IN  IF failAt = 1
        THEN Throw("getPosts", StoreError, "", 1)
        ELSE IF tokenRejected(isTokenValid)
        THEN Throw("getPosts", BadRequestError, "Token invalido", 1)
        ELSE Return("getPosts", OK, "", 1,
                    { toOutputDTO(post) : post \in getPosts(posts, users, query) },
                    NoCall, NoPre, posts, likes_dislikes)

GetPosts(token, query, failAt) ==
    LET isTokenValid == getPayload(token)
    IN  IF tokenRejected(isTokenValid)
        THEN Throw("getPosts", BadRequestError, "Token invalido", 0)
        ELSE IF failAt = 1
        THEN Throw("getPosts", StoreError, "", 1)
        ELSE Return("getPosts", OK, "", 1,
                    { toOutputDTO(post) : post \in getPosts(posts, users, query) },
                    NoCall, NoPre, posts, likes_dislikes)

\* createPost inserting without asking whether the id is taken
CreatePost_Overwrites(token, content, id, now, failAt) ==
    LET payload == getPayload(token)
    IN  IF tokenRejected(payload)
        THEN Throw("createPost", BadRequestError, "Token invalido", 0)
        ELSE LET newPost == [id |-> id, creator_id |-> payload.id,
                             content |-> content]
             IN  IF createPostRefused(users, newPost)
                 THEN Throw("createPost", StoreError, "", 1)
                 ELSE Return("createPost", OK, "Post criado com sucesso.", 1,
                             {}, <<token, id, content>>, NoPre,
                             createPost(posts, newPost, now), likes_dislikes)

CreatePost(token, content, id, now, failAt) ==
    LET payload == getPayload(token)
    IN  IF tokenRejected(payload)
        THEN Throw("createPost", BadRequestError, "Token invalido", 0)
        ELSE LET newPost == [id |-> id, creator_id |-> payload.id,
                             content |-> content]
                 postExists == getPostByIdDBForm(posts, newPost.id)
             IN  IF failAt = 1
                 THEN Throw("createPost", StoreError, "", 1)
                 ELSE IF postExists # NULL
                 THEN Throw("createPost", BadRequestError, "Post ja existe.", 1)
                 ELSE IF failAt = 2 \/ createPostRefused(users, newPost)
                 THEN Throw("createPost", StoreError, "", 2)
                 ELSE Return("createPost", OK, "Post criado com sucesso.", 2,
                             {}, <<token, id, content>>, NoPre,
                             createPost(posts, newPost, now), likes_dislikes)

\* editPost writing the post anew instead of updating two of its columns
EditPost_AsNew(token, idToEdit, newContent, now, failAt) ==
    LET payload == getPayload(token)
    IN  IF tokenRejected(payload)
        THEN Throw("editPost", BadRequestError, "Token invalido", 0)
        ELSE LET postToEdit == getPostByIdOutputForm(posts, users, idToEdit)
             IN  IF postToEdit = NULL
                 THEN Throw("editPost", NotFoundError,
                            "Nao ha post correspondente ao 'id' informado", 1)
                 ELSE IF notOwner(payload, postToEdit)
                 THEN Throw("editPost", BadRequestError,
                            "O post deve pertencer ao usuario logado para que possa edita-lo", 1)
                 ELSE Return("editPost", OK, "Post modificado com sucesso.", 2,
                             {}, NoCall, NoPre,
                             [posts EXCEPT ![idToEdit] =
                                 [NewPostRow([creator_id |-> payload.id,
                                              content |-> newContent], now)
                                  EXCEPT !.updated_at = now]],
                             likes_dislikes)

\* editPost asking for ownership before it asks whether the post is stored
EditPost_OwnerFirst(token, idToEdit, newContent, now, failAt) ==
    LET payload == getPayload(token)
    IN  IF tokenRejected(payload)
        THEN Throw("editPost", BadRequestError, "Token invalido", 0)
        ELSE LET postToEdit == getPostByIdOutputForm(posts, users, idToEdit)
                 inputDB == [idToEdit |-> idToEdit,
                             newPost |-> [content |-> newContent,
                                          updated_at |-> now]]
             IN  IF postToEdit = NULL \/ notOwner(payload, postToEdit)
                 THEN Throw("editPost", BadRequestError,
                            "O post deve pertencer ao usuario logado para que possa edita-lo", 1)
                 ELSE Return("editPost", OK, "Post modificado com sucesso.", 2,
                             {}, NoCall, NoPre,
                             editPost(posts, inputDB), likes_dislikes)

EditPost(token, idToEdit, newContent, now, failAt) ==
    LET payload == getPayload(token)
    IN  IF tokenRejected(payload)
        THEN Throw("editPost", BadRequestError, "Token invalido", 0)
        ELSE LET postToEdit == getPostByIdOutputForm(posts, users, idToEdit)
                 inputDB == [idToEdit |-> idToEdit,
                             newPost |-> [content |-> newContent,
                                          updated_at |-> now]]
             IN  IF failAt = 1
                 THEN Throw("editPost", StoreError, "", 1)
                 ELSE IF postToEdit = NULL
                 THEN Throw("editPost", NotFoundError,
                            "Nao ha post correspondente ao 'id' informado", 1)
                 ELSE IF notOwner(payload, postToEdit)
                 THEN Throw("editPost", BadRequestError,
                            "O post deve pertencer ao usuario logado para que possa edita-lo", 1)
                 ELSE IF failAt = 2
                 THEN Throw("editPost", StoreError, "", 2)
                 ELSE Return("editPost", OK, "Post modificado com sucesso.", 2,
                             {}, NoCall, NoPre,
                             editPost(posts, inputDB), likes_dislikes)

\* putLike looking the user up before the post
PutLike_UserFirst(token, postId, like, failAt) ==
    LET payload == getPayload(token)
    IN  IF tokenRejected(payload)
        THEN Throw("putLike", BadRequestError, "Token invalido", 0)
        ELSE LET userId == payload.id
                 inputLikeDB == [userId |-> userId, postId |-> postId, like |-> like]
                 postDB == getPostByIdDBForm(posts, postId)
                 userDB == findUserById(users, userId)
             IN  IF userDB = NULL
                 THEN Throw("putLike", NotFoundError, "Usuario nao existe.", 1)
                 ELSE IF postDB = NULL
                 THEN Throw("putLike", NotFoundError, "Post nao existe.", 2)
                 ELSE IF ownPost(postDB, userId)
                 THEN Throw("putLike", BadRequestError,
                            "O usuario nao pode reagir ao proprio post.", 2)
                 ELSE \E likeDB \in getLike(likes_dislikes, inputLikeDB) :
                      LET branch == putLikeBranch(likeDB, like)
                      IN  Return("putLike", OK, putLikeMessage(branch), 5, {},
                                 <<token, postId, like>>,
                                 preOf(posts, likes_dislikes, userId, postId),
                                 putLikeCounter(posts, inputLikeDB, branch),
                                 putLikeRow(likes_dislikes, inputLikeDB, branch))

PutLike(token, postId, like, failAt) ==
    LET payload == getPayload(token)
    IN  IF tokenRejected(payload)
        THEN Throw("putLike", BadRequestError, "Token invalido", 0)
        ELSE LET userId == payload.id
                 inputLikeDB == [userId |-> userId, postId |-> postId, like |-> like]
                 postDB == getPostByIdDBForm(posts, postId)
                 userDB == findUserById(users, userId)
             IN  IF failAt = 1
                 THEN Throw("putLike", StoreError, "", 1)
                 ELSE IF postDB = NULL
                 THEN Throw("putLike", NotFoundError, "Post nao existe.", 1)
                 ELSE IF failAt = 2
                 THEN Throw("putLike", StoreError, "", 2)
                 ELSE IF userDB = NULL
                 THEN Throw("putLike", NotFoundError, "Usuario nao existe.", 2)
                 ELSE IF ownPost(postDB, userId)
                 THEN Throw("putLike", BadRequestError,
                            "O usuario nao pode reagir ao proprio post.", 2)
                 ELSE IF failAt = 3
                 THEN Throw("putLike", StoreError, "", 3)
                 ELSE \E likeDB \in getLike(likes_dislikes, inputLikeDB) :
                      LET branch == putLikeBranch(likeDB, like)
                          call == <<token, postId, like>>
                          pre == preOf(posts, likes_dislikes, userId, postId)
                          R1 == putLikeRow(likes_dislikes, inputLikeDB, branch)
                          P2 == putLikeCounter(posts, inputLikeDB, branch)
                      IN  IF failAt = 4
                          THEN Return("putLike", StoreError, "", 4, {}, call, pre,
                                      posts, likes_dislikes)
                          ELSE IF failAt = 5
                          THEN Return("putLike", StoreError, "", 5, {}, call, pre,
                                      posts, R1)
                          ELSE Return("putLike", OK, putLikeMessage(branch), 5,
                                      {}, call, pre, P2, R1)

DeletePost(token, idToDelete, failAt) ==
    LET payload == getPayload(token)
    IN  IF tokenRejected(payload)
        THEN Throw("deletePost", BadRequestError, "Token invalido", 0)
        ELSE LET postExists == getPostByIdDBForm(posts, idToDelete)
             IN  IF failAt = 1
                 THEN Throw("deletePost", StoreError, "", 1)
                 ELSE IF postExists = NULL
                 THEN Throw("deletePost", NotFoundError,
                            "'id' informado nao possui posts.", 1)
                 ELSE IF notOwner(payload, postExists)
                 THEN Throw("deletePost", BadRequestError,
                            "O post deve pertencer ao usuario logado para que possa deleta-lo", 1)
                 ELSE IF failAt = 2
                 THEN Throw("deletePost", StoreError, "", 2)
                 ELSE Return("deletePost", OK, "Post deletado com sucesso.", 2,
                             {}, <<token, idToDelete>>,
                             [NoPre EXCEPT !.likes = postExists.likes,
                                           !.dislikes = postExists.dislikes],
                             deletePost(posts, idToDelete),
                             cascadePost(likes_dislikes, idToDelete))

----------------------------------------------------------------------------
(* The store as dados.sql seeds it, within PostIds *)

NoLast == [op |-> "none", status |-> OK, message |-> "", accesses |-> 0,
           output |-> {}, call |-> NoCall, pre |-> NoPre, first |-> NoPre]

\* the requests in flight in SpecConc and SpecDel
Procs == {"a", "b"}
NoLoc == [token |-> "t-invalid", postId |-> "p001", like |-> TRUE,
          content |-> "lindo dia.",
          postDB |-> NULL, likeDB |-> NULL, status |-> OK, message |-> ""]

Init ==
    /\ users = UserRows
    /\ posts = [id \in PostIds |->
                  IF id = "p001"
                  THEN NewPostRow([id |-> "p001", creator_id |-> "u001",
                                   content |-> "lindo dia."], 1)
                  ELSE NULL]
    /\ likes_dislikes = [k \in LikeKeys |-> 0]
    /\ last = NoLast
    /\ pc = [p \in Procs |-> "idle"]
    /\ loc = [p \in Procs |-> NoLoc]

\* calls one after the other, the store answering every call
Next ==
    \/ \E token \in Tokens, query \in Queries : GetPosts(token, query, 0)
    \/ \E token \in Tokens, content \in Contents, id \in PostIds, now \in Times :
          CreatePost(token, content, id, now, 0)
    \/ \E token \in Tokens, id \in PostIds, content \in Contents, now \in Times :
          EditPost(token, id, content, now, 0)
    \/ \E token \in Tokens, id \in PostIds, like \in BOOLEAN :
          PutLike(token, id, like, 0)
    \/ \E token \in Tokens, id \in PostIds : DeletePost(token, id, 0)

Spec == Init /\ [][Next]_vars

----------------------------------------------------------------------------
(* Reactions of every user: putLike, createPost and deletePost calls one   *)
(* after the other with the tokens of all three stored users, the store    *)
(* answering every call.                                                   *)

NextLikes ==
    \/ \E token \in AllTokens, id \in PostIds, like \in BOOLEAN :
          PutLike(token, id, like, 0)
    \/ \E token \in AllTokens, id \in PostIds, now \in Times :
          CreatePost(token, "lindo dia.", id, now, 0)
    \/ \E token \in AllTokens, id \in PostIds : DeletePost(token, id, 0)

SpecLikes == Init /\ [][NextLikes]_vars

----------------------------------------------------------------------------
(* putLike calls one after the other, any store call of which may throw *)

\* the counters explored
CountersWithin(P) ==
    \A id \in PostIds :
        P[id] # NULL => /\ P[id].likes \in -MaxCount..MaxCount
                        /\ P[id].dislikes \in -MaxCount..MaxCount

\* the store calls of putLike, in the order it awaits them
PutLikeCalls == 5

NextFail ==
    \E token \in Tokens, id \in PostIds, like \in BOOLEAN, failAt \in 0..PutLikeCalls :
        /\ PutLike(token, id, like, failAt)
        /\ CountersWithin(posts')

SpecFail == Init /\ [][NextFail]_vars

----------------------------------------------------------------------------
(* putLike calls in flight together: every awaited store call is a step,   *)
(* and the steps of the calls interleave.  loc[p] holds the locals of the  *)
(* call p runs and, once it has ended, how it ended.                       *)

inputLikeDBOf(l) ==
    [userId |-> getPayload(l.token).id, postId |-> l.postId, like |-> l.like]

\* call p ends with status and message, and its locals are gone
Finish(p, status, message) ==
    /\ pc' = [pc EXCEPT ![p] = "idle"]
    /\ loc' = [loc EXCEPT ![p] = [NoLoc EXCEPT !.status = status,
                                              !.message = message]]

\* the request arrives: the token is looked at before the first await
Begin(p, token, postId, like) ==
    /\ pc[p] = "idle"
    /\ LET l == [NoLoc EXCEPT !.token = token, !.postId = postId, !.like = like]
       IN  IF tokenRejected(getPayload(token))
           THEN Finish(p, BadRequestError, "Token invalido")
           ELSE /\ loc' = [loc EXCEPT ![p] = l]
                /\ pc' = [pc EXCEPT ![p] = "getPostByIdDBForm"]
    /\ UNCHANGED <<users, posts, likes_dislikes, last>>

\* await getPostByIdDBForm(postId), and the check of its result
GetPostStep(p) ==
    /\ pc[p] = "getPostByIdDBForm"
    /\ LET postDB == getPostByIdDBForm(posts, loc[p].postId)
       IN  IF postDB = NULL
           THEN Finish(p, NotFoundError, "Post nao existe.")
           ELSE /\ loc' = [loc EXCEPT ![p].postDB = postDB]
                /\ pc' = [pc EXCEPT ![p] = "findUserById"]
    /\ UNCHANGED <<users, posts, likes_dislikes, last>>

\* await findUserById(userId), and the two checks that follow it
FindUserStep(p) ==
    /\ pc[p] = "findUserById"
    /\ LET userId == getPayload(loc[p].token).id
           userDB == findUserById(users, userId)
       IN  IF userDB = NULL
           THEN Finish(p, NotFoundError, "Usuario nao existe.")
           ELSE IF ownPost(loc[p].postDB, userId)
           THEN Finish(p, BadRequestError,
                       "O usuario nao pode reagir ao proprio post.")
           ELSE /\ pc' = [pc EXCEPT ![p] = "getLike"]
                /\ UNCHANGED loc
    /\ UNCHANGED <<users, posts, likes_dislikes, last>>

\* await getLike(inputLikeDB)
GetLikeStep(p) ==
    /\ pc[p] = "getLike"
    /\ \E likeDB \in getLike(likes_dislikes, inputLikeDBOf(loc[p])) :
          loc' = [loc EXCEPT ![p].likeDB = likeDB]
    /\ pc' = [pc EXCEPT ![p] = "row"]
    /\ UNCHANGED <<users, posts, likes_dislikes, last>>

\* await createLike / deleteLike / changeLike
RowStep(p) ==
    /\ pc[p] = "row"
    /\ LET in == inputLikeDBOf(loc[p])
           branch == putLikeBranch(loc[p].likeDB, loc[p].like)
       IN  IF branch = "create" /\ createLikeRefused(posts, users, in)
           THEN /\ Finish(p, StoreError, "")
                /\ UNCHANGED likes_dislikes
           ELSE /\ likes_dislikes' = putLikeRow(likes_dislikes, in, branch)
                /\ \A k \in LikeKeys : likes_dislikes'[k] <= MaxRows
                /\ pc' = [pc EXCEPT ![p] = "counter"]
                /\ UNCHANGED loc
    /\ UNCHANGED <<users, posts, last>>

\* await addLikeInPost / decreaseLikeInPost / overwriteLikeInPost, and the
\* return
CounterStep(p) ==
    /\ pc[p] = "counter"
    /\ LET in == inputLikeDBOf(loc[p])
           branch == putLikeBranch(loc[p].likeDB, loc[p].like)
       IN  /\ posts' = putLikeCounter(posts, in, branch)
           /\ CountersWithin(posts')
           /\ Finish(p, OK, putLikeMessage(branch))
    /\ UNCHANGED <<users, likes_dislikes, last>>

NextConc ==
    \/ \E p \in Procs, token \in Tokens, id \in PostIds, like \in BOOLEAN :
          Begin(p, token, id, like)
    \/ \E p \in Procs : GetPostStep(p)
    \/ \E p \in Procs : FindUserStep(p)
    \/ \E p \in Procs : GetLikeStep(p)
    \/ \E p \in Procs : RowStep(p)
    \/ \E p \in Procs : CounterStep(p)

SpecConc == Init /\ [][NextConc]_vars

-----------------------------------------------------------------------------
(* A deletePost in flight next to an editPost or a putLike: each await of  *)
(* a handler is a step of its own, and the steps of the two requests       *)
(* interleave.                                                             *)

\* deletePost arrives: the token is looked at before the first await
BeginDelete(p, token, idToDelete) ==
    /\ pc[p] = "idle"
    /\ IF tokenRejected(getPayload(token))
       THEN Finish(p, BadRequestError, "Token invalido")
       ELSE /\ loc' = [loc EXCEPT ![p] = [NoLoc EXCEPT !.token = token,
                                                      !.postId = idToDelete]]
            /\ pc' = [pc EXCEPT ![p] = "deleteRead"]
    /\ UNCHANGED <<users, posts, likes_dislikes, last>>

\* await getPostByIdDBForm(idToDelete), and the two checks of its result
DeleteReadStep(p) ==
    /\ pc[p] = "deleteRead"
    /\ LET postExists == getPostByIdDBForm(posts, loc[p].postId)
       IN  IF postExists = NULL
           THEN Finish(p, NotFoundError, "'id' informado nao possui posts.")
           ELSE IF notOwner(getPayload(loc[p].token), postExists)
           THEN Finish(p, BadRequestError,
                       "O post deve pertencer ao usuario logado para que possa deleta-lo")
           ELSE /\ pc' = [pc EXCEPT ![p] = "deleteWrite"]
                /\ UNCHANGED loc
    /\ UNCHANGED <<users, posts, likes_dislikes, last>>

\* await deletePost(idToDelete), and the return
DeleteWriteStep(p) ==
    /\ pc[p] = "deleteWrite"
    /\ posts' = deletePost(posts, loc[p].postId)
    /\ likes_dislikes' = cascadePost(likes_dislikes, loc[p].postId)
    /\ Finish(p, OK, "Post deletado com sucesso.")
    /\ UNCHANGED <<users, last>>

\* editPost arrives: the token is looked at before the first await
BeginEdit(p, token, idToEdit, newContent) ==
    /\ pc[p] = "idle"
    /\ IF tokenRejected(getPayload(token))
       THEN Finish(p, BadRequestError, "Token invalido")
       ELSE /\ loc' = [loc EXCEPT ![p] = [NoLoc EXCEPT !.token = token,
                                                      !.postId = idToEdit,
                                                      !.content = newContent]]
            /\ pc' = [pc EXCEPT ![p] = "editRead"]
    /\ UNCHANGED <<users, posts, likes_dislikes, last>>

\* await getPostByIdOutputForm(idToEdit), and the two checks of its result
EditReadStep(p) ==
    /\ pc[p] = "editRead"
    /\ LET postToEdit == getPostByIdOutputForm(posts, users, loc[p].postId)
       IN  IF postToEdit = NULL
           THEN Finish(p, NotFoundError,
                       "Nao ha post correspondente ao 'id' informado")
           ELSE IF notOwner(getPayload(loc[p].token), postToEdit)
           THEN Finish(p, BadRequestError,
                       "O post deve pertencer ao usuario logado para que possa edita-lo")
           ELSE /\ pc' = [pc EXCEPT ![p] = "editWrite"]
                /\ UNCHANGED loc
    /\ UNCHANGED <<users, posts, likes_dislikes, last>>

\* inputDB is built at time now, then await editPost(inputDB), and the return
EditWriteStep(p, now) ==
    /\ pc[p] = "editWrite"
    /\ LET inputDB == [idToEdit |-> loc[p].postId,
                       newPost |-> [content |-> loc[p].content,
                                    updated_at |-> now]]
       IN  posts' = editPost(posts, inputDB)
    /\ Finish(p, OK, "Post modificado com sucesso.")
    /\ UNCHANGED <<users, likes_dislikes, last>>

\* the creator of p001 and another stored user
DelTokens == {"t-u001", "t-u003"}

\* request a is a deletePost of p001, request b an editPost or a putLike on
\* p001, one after the other
NextDel ==
    \/ \E token \in DelTokens : BeginDelete("a", token, "p001")
    \/ \E p \in Procs : DeleteReadStep(p)
    \/ \E p \in Procs : DeleteWriteStep(p)
    \/ \E token \in DelTokens, content \in Contents :
          BeginEdit("b", token, "p001", content)
    \/ \E p \in Procs : EditReadStep(p)
    \/ \E p \in Procs, now \in Times : EditWriteStep(p, now)
    \/ \E token \in DelTokens, like \in BOOLEAN : Begin("b", token, "p001", like)
    \/ \E p \in Procs : GetPostStep(p)
    \/ \E p \in Procs : FindUserStep(p)
    \/ \E p \in Procs : GetLikeStep(p)
    \/ \E p \in Procs : RowStep(p)
    \/ \E p \in Procs : CounterStep(p)

SpecDel == Init /\ [][NextDel]_vars

----------------------------------------------------------------------------
(* Counting the rows of likes_dislikes *)

RECURSIVE SumOver(_, _)
SumOver(f, S) ==
    IF S = {} THEN 0
    ELSE LET x == CHOOSE y \in S : TRUE IN f[x] + SumOver(f, S \ {x})

\* rows with post_id = postId and like = like
countRows(R, postId, like) ==
    SumOver([u \in ActorIds |-> R[<<u, postId, like>>]], ActorIds)

\* the counters of every stored post are the counts of its rows
CountersMatchRows ==
    \A id \in PostIds :
        posts[id] # NULL =>
            /\ posts[id].likes = countRows(likes_dislikes, id, TRUE)
            /\ posts[id].dislikes = countRows(likes_dislikes, id, FALSE)

Removed == "Like/Dislike removido com sucesso."
Changed == "Like/Dislike alterado com sucesso."
Sent == "Like/Dislike enviado com sucesso."

----------------------------------------------------------------------------
(* Claims *)

\* C1: after any sequence of completed putLike calls, by any users on any
\* posts, every stored post's likes is the number of its rows with
\* like = true and its dislikes the number of its rows with like = false.
C1_CountersMatchRows == CountersMatchRows

\* a putLike call has just changed a like into a dislike on a post that
\* another user dislikes too: two dislike rows, dislikes = 2
C1_Witness ==
    /\ last.op = "putLike" /\ last.status = OK /\ last.message = Changed
    /\ \E id \in PostIds :
          /\ posts[id] # NULL
          /\ posts[id].dislikes = 2 /\ posts[id].likes = 0
          /\ countRows(likes_dislikes, id, FALSE) = 2

\* some handler runs with this token, the store answering every call (a
\* handler leaves its name in last.op, which is looked at first)
AnyCall(token) ==
    \/ /\ last'.op = "getPosts"
       /\ \E query \in Queries : GetPosts(token, query, 0)
    \/ /\ last'.op = "createPost"
       /\ \E content \in Contents, id \in PostIds, now \in Times :
             CreatePost(token, content, id, now, 0)
    \/ /\ last'.op = "editPost"
       /\ \E id \in PostIds, content \in Contents, now \in Times :
             EditPost(token, id, content, now, 0)
    \/ /\ last'.op = "putLike"
       /\ \E id \in PostIds, like \in BOOLEAN : PutLike(token, id, like, 0)
    \/ /\ last'.op = "deletePost"
       /\ \E id \in PostIds : DeletePost(token, id, 0)

\* C4: putLike by the creator of the post, with either like value, ends in
\* a bad-request error and leaves every row and every counter as it was.
C4_OwnPostRejected ==
    [][\A token \in Tokens, id \in PostIds, like \in BOOLEAN :
          ( /\ last'.op = "putLike"
            /\ getPayload(token) # NULL
            /\ posts[id] # NULL
            /\ posts[id].creator_id = getPayload(token).id
            /\ PutLike(token, id, like, 0) )
          => /\ last'.status = BadRequestError
             /\ UNCHANGED store]_vars

\* the creator of a stored post has just been refused a reaction to it
C4_Witness ==
    /\ last.op = "putLike" /\ last.status = BadRequestError
    /\ last.message = "O usuario nao pode reagir ao proprio post."
    /\ last.accesses = 2

\* C5: with a token that has no payload, every operation ends in an error
\* before its first store call and leaves users, posts and reactions as
\* they were.
C5_NoPayloadNoStoreAccess ==
    [][\A token \in Tokens :
          (getPayload(token) = NULL /\ AnyCall(token))
          => /\ last'.status # OK
             /\ last'.accesses = 0
             /\ UNCHANGED store]_vars

\* a call with an invalid token has just been refused
C5_Witness ==
    /\ last.op \in {"getPosts", "createPost", "editPost", "putLike", "deletePost"}
    /\ last.message = "Token invalido"
    /\ last.accesses = 0

\* C6: the error for a missing or invalid token is of an authentication
\* category, which is neither the bad-request nor the not-found category.
C6_AuthenticationCategory ==
    [][\A token \in Tokens :
          (getPayload(token) = NULL /\ AnyCall(token))
          => last'.status \notin {OK, BadRequestError, NotFoundError}]_vars

\* C7: editPost and deletePost of a stored post by anyone but its creator,
\* the ADMIN included, end in a bad-request error and leave the post, its
\* rows and the rest of the store as they were.
C7_NonOwnerRejected ==
    [][\A token \in Tokens, id \in PostIds :
          ( /\ last'.op \in {"editPost", "deletePost"}
            /\ getPayload(token) # NULL
            /\ posts[id] # NULL
            /\ posts[id].creator_id # getPayload(token).id
            /\ \/ /\ last'.op = "editPost"
                  /\ \E content \in Contents, now \in Times :
                        EditPost(token, id, content, now, 0)
               \/ /\ last'.op = "deletePost"
                  /\ DeletePost(token, id, 0) )
          => /\ last'.status = BadRequestError
             /\ UNCHANGED store]_vars

\* an edit or a delete by someone who is not the creator has just been
\* refused, while a post of the NORMAL user u001 is stored
C7_Witness ==
    /\ last.status = BadRequestError
    /\ last.message \in
         {"O post deve pertencer ao usuario logado para que possa edita-lo",
          "O post deve pertencer ao usuario logado para que possa deleta-lo"}
    /\ \E id \in PostIds : posts[id] # NULL /\ posts[id].creator_id = "u001"

\* the call putLike(token, id, like) meets a stored post that its stored
\* user did not create and has no reaction on
FreshReactor(token, id) ==
    /\ getPayload(token) # NULL
    /\ findUserById(users, getPayload(token).id) # NULL
    /\ posts[id] # NULL
    /\ posts[id].creator_id # getPayload(token).id
    /\ reactionOf(likes_dislikes, getPayload(token).id, id) = "none"

\* C8: from no reaction, two putLike calls in a row by the same user on the
\* same post with the same value both succeed, and after the second the
\* user has no reaction and the counters are what they were before the
\* first.
C8_TwiceIsToggleOff ==
    [][\A token \in AllTokens, id \in PostIds, like \in BOOLEAN :
          /\ ( /\ last'.op = "putLike"
               /\ FreshReactor(token, id)
               /\ PutLike(token, id, like, 0) )
             => /\ last'.status = OK
                /\ last'.call = <<token, id, like>>
                /\ last'.pre = [likes |-> posts[id].likes,
                                dislikes |-> posts[id].dislikes,
                                reaction |-> "none"]
          /\ ( /\ last.op = "putLike" /\ last.status = OK
               /\ last.call = <<token, id, like>>
               /\ last.pre.reaction = "none"
               /\ PutLike(token, id, like, 0) )
             => /\ last'.status = OK
                /\ reactionOf(likes_dislikes', getPayload(token).id, id) = "none"
                /\ posts'[id].likes = last.pre.likes
                /\ posts'[id].dislikes = last.pre.dislikes]_vars

\* the second of two such calls has just removed the reaction, on a post
\* that carries the reaction of another user
C8_Witness ==
    /\ last.op = "putLike" /\ last.status = OK
    /\ last.first.reaction = "none"
    /\ last.first.likes + last.first.dislikes = 1
    /\ last.message = Removed
    /\ posts[last.call[2]].likes = last.first.likes
    /\ posts[last.call[2]].dislikes = last.first.dislikes

\* the counter of kind like, the counter of the other kind
counterOf(post, like) == IF like THEN post.likes ELSE post.dislikes

\* C9: a successful putLike follows the transition table: no reaction ->
\* row of the requested kind inserted, its counter + 1, message "sent";
\* reaction of the requested kind -> row deleted, its counter - 1, message
\* "removed"; reaction of the other kind -> the one row overwritten, the old
\* kind's counter - 1, the requested kind's + 1, message "changed".
C9_TransitionTable ==
    [][\A token \in AllTokens, id \in PostIds, like \in BOOLEAN :
          (last'.op = "putLike" /\ last'.status = OK /\ PutLike(token, id, like, 0))
          => LET u == getPayload(token).id
                 was == reactionOf(likes_dislikes, u, id)
                 requested == IF like THEN "like" ELSE "dislike"
                 other == IF like THEN "dislike" ELSE "like"
                 R == likes_dislikes
             IN  \/ /\ was = "none"
                    /\ likes_dislikes'[<<u, id, like>>] = 1
                    /\ likes_dislikes'[<<u, id, ~like>>] = 0
                    /\ counterOf(posts'[id], like) = counterOf(posts[id], like) + 1
                    /\ counterOf(posts'[id], ~like) = counterOf(posts[id], ~like)
                    /\ last'.message = Sent
                 \/ /\ was = requested
                    /\ likes_dislikes'[<<u, id, like>>] = 0
                    /\ likes_dislikes'[<<u, id, ~like>>] = 0
                    /\ counterOf(posts'[id], like) = counterOf(posts[id], like) - 1
                    /\ counterOf(posts'[id], ~like) = counterOf(posts[id], ~like)
                    /\ last'.message = Removed
                 \/ /\ was = other
                    /\ likes_dislikes'[<<u, id, like>>] = 1
                    /\ likes_dislikes'[<<u, id, ~like>>] = 0
                    /\ counterOf(posts'[id], like) = counterOf(posts[id], like) + 1
                    /\ counterOf(posts'[id], ~like) = counterOf(posts[id], ~like) - 1
                    /\ last'.message = Changed]_vars

\* a dislike has just been changed into a like, next to the like of another
\* user: likes went from 1 to 2, dislikes from 1 to 0
C9_Witness ==
    /\ last.op = "putLike" /\ last.status = OK /\ last.message = Changed
    /\ last.pre = [likes |-> 1, dislikes |-> 1, reaction |-> "dislike"]
    /\ last.call[3] = TRUE
    /\ posts[last.call[2]].likes = 2 /\ posts[last.call[2]].dislikes = 0
    /\ reactionOf(likes_dislikes, getPayload(last.call[1]).id, last.call[2]) = "like"

\* C10: after any sequence of completed calls, likes_dislikes holds at most
\* one row for each (user_id, post_id).
C10_OneRowPerPair ==
    \A u \in ActorIds, id \in PostIds : rowsOf(likes_dislikes, u, id) <= 1

\* a reaction has just been changed, and the pair still has its one row
C10_Witness ==
    /\ last.op = "putLike" /\ last.status = OK /\ last.message = Changed
    /\ rowsOf(likes_dislikes, getPayload(last.call[1]).id, last.call[2]) = 1

\* C2: a putLike call that ends in an error, the store call that threw
\* being any of its five, has changed neither a row nor a counter.
C2_AllOrNothing ==
    [][\A token \in Tokens, id \in PostIds, like \in BOOLEAN,
          failAt \in 0..PutLikeCalls :
          (PutLike(token, id, like, failAt) /\ last'.status # OK)
          => UNCHANGED store]_vars

\* C3: with putLike calls interleaving, no (user, post) pair ever has more
\* than one row, and with no call in flight the counters of every post are
\* the counts of its rows.
C3_RaceSafe ==
    /\ \A u \in ActorIds, id \in PostIds : rowsOf(likes_dislikes, u, id) <= 1
    /\ (\A p \in Procs : pc[p] = "idle") => CountersMatchRows

\* C11: a successful createPost by user u with content c stores a new post
\* with creator_id u, content c, likes 0 and dislikes 0, and a getPosts
\* that follows it, with any valid token and no query, returns that post
\* with likes 0, dislikes 0 and creator id u.
C11_CreatedThenListed ==
    [][/\ \A token \in Tokens, content \in Contents, id \in PostIds, now \in Times :
             ( /\ last'.op = "createPost" /\ last'.status = OK
               /\ CreatePost(token, content, id, now, 0) )
             => /\ posts[id] = NULL
                /\ posts'[id] # NULL
                /\ posts'[id].creator_id = getPayload(token).id
                /\ posts'[id].content = content
                /\ posts'[id].likes = 0
                /\ posts'[id].dislikes = 0
                /\ \A other \in PostIds \ {id} : posts'[other] = posts[other]
                /\ last'.call = <<token, id, content>>
       /\ \A token \in Tokens :
             ( /\ last.op = "createPost" /\ last.status = OK
               /\ last'.op = "getPosts"
               /\ getPayload(token) # NULL
               /\ GetPosts(token, undefined, 0) )
             => /\ last'.status = OK
                /\ \E dto \in last'.output :
                      /\ dto.id = last.call[2]
                      /\ dto.content = last.call[3]
                      /\ dto.likes = 0
                      /\ dto.dislikes = 0
                      /\ dto.creator.id = getPayload(last.call[1]).id]_vars

\* the ADMIN has just created a post next to the seeded one
C11_Witness ==
    /\ last.op = "createPost" /\ last.status = OK
    /\ last.call[1] = "t-u003"
    /\ posts[last.call[2]].creator_id = "u003"
    /\ posts[last.call[2]].likes = 0 /\ posts[last.call[2]].dislikes = 0
    /\ \E other \in PostIds \ {last.call[2]} : posts[other] # NULL

\* the post_id of every likes_dislikes row is the id of a stored post
RowsReferenceStoredPosts(P, R) ==
    \A k \in LikeKeys : R[k] > 0 => P[k[2]] # NULL

\* C12: a successful deletePost of p by its creator leaves no post p and no
\* likes_dislikes row of p, and in every reachable state the post_id of each
\* likes_dislikes row is the id of a stored post.
C12_DeleteCascades ==
    [][/\ RowsReferenceStoredPosts(posts', likes_dislikes')
       /\ \A token \in AllTokens, id \in PostIds :
             ( /\ last'.op = "deletePost" /\ last'.status = OK
               /\ DeletePost(token, id, 0) )
             => /\ posts[id] # NULL
                /\ posts[id].creator_id = getPayload(token).id
                /\ posts'[id] = NULL
                /\ \A k \in LikeKeys : k[2] = id => likes_dislikes'[k] = 0
                /\ \A k \in LikeKeys : k[2] # id => likes_dislikes'[k] = likes_dislikes[k]
                /\ \A other \in PostIds \ {id} : posts'[other] = posts[other]]_vars

\* a post with a like and a dislike has just been deleted by its creator,
\* and the other post keeps its reaction row
C12_Witness ==
    /\ last.op = "deletePost" /\ last.status = OK
    /\ last.pre.likes = 1 /\ last.pre.dislikes = 1
    /\ posts[last.call[2]] = NULL
    /\ \A k \in LikeKeys : k[2] = last.call[2] => likes_dislikes[k] = 0
    /\ \E k \in LikeKeys : likes_dislikes[k] > 0

\* C13: in every reachable state, with putLike calls one after the other
\* and with putLike calls interleaved alike, the likes and the dislikes of
\* every stored post are integers greater than or equal to 0.
C13_CountersNonNegative ==
    \A id \in PostIds :
        posts[id] # NULL =>
            /\ posts[id].likes \in Nat
            /\ posts[id].dislikes \in Nat

\* C14: with a deletePost of p by its creator interleaved with a putLike
\* on p by another user or with an editPost on p, no likes_dislikes row
\* references a post that is not stored, and no putLike and no editPost
\* reports success when its write ran on a post that was no longer stored.
C14_DeleteRaceSafe ==
    [][/\ RowsReferenceStoredPosts(posts', likes_dislikes')
       /\ \A p \in Procs :
             ( /\ pc[p] \in {"editWrite", "counter"}
               /\ \/ \E now \in Times : EditWriteStep(p, now)
                  \/ CounterStep(p)
               /\ loc'[p].status = OK )
             => posts[loc[p].postId] # NULL]_vars

\* C15: putLike with a valid token checks in this order: the post is not
\* stored, not-found; else the user is not stored, not-found; else the
\* user is the post's creator, bad-request.  Each of the three ends the
\* call with no row and no counter changed.
C15_PutLikeCheckOrder ==
    [][\A token \in Tokens, id \in PostIds, like \in BOOLEAN :
          ( /\ last'.op = "putLike"
            /\ getPayload(token) # NULL
            /\ PutLike(token, id, like, 0) )
          => IF posts[id] = NULL
             THEN /\ last'.status = NotFoundError
                  /\ last'.message = "Post nao existe."
                  /\ last'.accesses = 1
                  /\ UNCHANGED store
             ELSE IF \A u \in users : u.id # getPayload(token).id
             THEN /\ last'.status = NotFoundError
                  /\ last'.message = "Usuario nao existe."
                  /\ last'.accesses = 2
                  /\ UNCHANGED store
             ELSE IF posts[id].creator_id = getPayload(token).id
             THEN /\ last'.status = BadRequestError
                  /\ last'.message = "O usuario nao pode reagir ao proprio post."
                  /\ last'.accesses = 2
                  /\ UNCHANGED store
             ELSE last'.accesses > 2]_vars

\* a user that is not stored has reacted to a stored post, with another
\* post id free
C15_Witness ==
    /\ last.op = "putLike"
    /\ last.status = NotFoundError
    /\ last.message = "Usuario nao existe."
    /\ last.accesses = 2
    /\ \E id \in PostIds : posts[id] = NULL
    /\ \E id \in PostIds : posts[id] # NULL

\* C16: editPost and deletePost with a valid token and the id of no stored
\* post end in a not-found error after the one read, whoever calls, and
\* leave the store as it was.
C16_AbsentPostNotFound ==
    [][\A token \in Tokens, id \in PostIds :
          ( /\ last'.op \in {"editPost", "deletePost"}
            /\ getPayload(token) # NULL
            /\ posts[id] = NULL
            /\ \/ /\ last'.op = "editPost"
                  /\ \E content \in Contents, now \in Times :
                        EditPost(token, id, content, now, 0)
               \/ /\ last'.op = "deletePost"
                  /\ DeletePost(token, id, 0) )
          => /\ last'.status = NotFoundError
             /\ last'.accesses = 1
             /\ last'.message =
                   IF last'.op = "editPost"
                   THEN "Nao ha post correspondente ao 'id' informado"
                   ELSE "'id' informado nao possui posts."
             /\ UNCHANGED store]_vars

\* editPost has just been refused for a post id that is not stored
C16_Witness ==
    /\ last.op = "editPost"
    /\ last.status = NotFoundError
    /\ last.accesses = 1
    /\ \E id \in PostIds : posts[id] = NULL

\* C17: createPost with a valid token and a generated id that is the id of
\* a stored post ends in a bad-request error after the one read, with no
\* second id tried, and leaves that post and the rest of the store as they
\* were.
C17_TakenIdRejected ==
    [][\A token \in AllTokens, content \in Contents, id \in PostIds, now \in Times :
          ( /\ last'.op = "createPost"
            /\ getPayload(token) # NULL
            /\ posts[id] # NULL
            /\ CreatePost(token, content, id, now, 0) )
          => /\ last'.status = BadRequestError
             /\ last'.message = "Post ja existe."
             /\ last'.accesses = 1
             /\ UNCHANGED store]_vars

\* createPost has just been refused for a taken id, the other id being free
\* and the taken post holding a reaction
C17_Witness ==
    /\ last.op = "createPost"
    /\ last.status = BadRequestError
    /\ last.message = "Post ja existe."
    /\ \E id \in PostIds : posts[id] = NULL
    /\ \E id \in PostIds : posts[id] # NULL /\ posts[id].likes + posts[id].dislikes > 0

\* C18: a successful editPost of post p by its creator changes the content
\* and the updated_at of p and nothing else: the creator_id, likes, dislikes
\* and created_at of p, every likes_dislikes row and every other post stay
\* as they were.
C18_EditFrame ==
    [][\A token \in Tokens, id \in PostIds, content \in Contents, now \in Times :
          ( /\ last'.op = "editPost" /\ last'.status = OK
            /\ EditPost(token, id, content, now, 0) )
          => /\ posts[id] # NULL
             /\ posts[id].creator_id = getPayload(token).id
             /\ posts'[id] # NULL
             /\ posts'[id].content = content
             /\ posts'[id].updated_at = now
             /\ posts'[id].creator_id = posts[id].creator_id
             /\ posts'[id].likes = posts[id].likes
             /\ posts'[id].dislikes = posts[id].dislikes
             /\ posts'[id].created_at = posts[id].created_at
             /\ \A other \in PostIds \ {id} : posts'[other] = posts[other]
             /\ UNCHANGED <<users, likes_dislikes>>]_vars

\* a post holding a reaction has just been edited, next to another post
C18_Witness ==
    /\ last.op = "editPost" /\ last.status = OK
    /\ \E id \in PostIds :
          /\ posts[id] # NULL
          /\ posts[id].updated_at # NoTime
          /\ posts[id].content = "hoje vai ser demais."
          /\ posts[id].likes + posts[id].dislikes > 0
          /\ \E other \in PostIds \ {id} :
                posts[other] # NULL /\ posts[other].updated_at = NoTime

\* C19: a putLike call of user u on post p, successful or not, changes at
\* most the likes_dislikes rows of the pair (u, p) and the likes and
\* dislikes of p: the rows of every other pair, every other post, and the
\* content, creator_id and existence of every post stay as they were.
C19_PutLikeFrame ==
    [][\A token \in AllTokens, id \in PostIds, like \in BOOLEAN :
          ( /\ last'.op = "putLike"
            /\ PutLike(token, id, like, 0) )
          => /\ \A k \in LikeKeys :
                   ( \/ getPayload(token) = NULL
                     \/ k[1] # getPayload(token).id
                     \/ k[2] # id )
                   => likes_dislikes'[k] = likes_dislikes[k]
             /\ \A other \in PostIds \ {id} : posts'[other] = posts[other]
             /\ (posts'[id] = NULL) = (posts[id] = NULL)
             /\ posts[id] # NULL =>
                   /\ posts'[id].content = posts[id].content
                   /\ posts'[id].creator_id = posts[id].creator_id
                   /\ posts'[id].created_at = posts[id].created_at
                   /\ posts'[id].updated_at = posts[id].updated_at
             /\ UNCHANGED users]_vars

\* a reaction has just been recorded on a post that holds the reaction of
\* another user, next to another post with a reaction of its own
C19_Witness ==
    /\ last.op = "putLike" /\ last.status = OK
    /\ last.message = Sent
    /\ \E k \in LikeKeys :
          /\ likes_dislikes[k] > 0
          /\ k[2] = last.call[2]
          /\ k[1] # getPayload(last.call[1]).id
    /\ \E k \in LikeKeys : likes_dislikes[k] > 0 /\ k[2] # last.call[2]

\* no likes_dislikes row of R has the creator of its post in P as user_id
NoSelfReaction(P, R) ==
    \A k \in LikeKeys :
        (R[k] > 0 /\ P[k[2]] # NULL) => P[k[2]].creator_id # k[1]

\* C20: in every reachable state no likes_dislikes row has for user_id the
\* creator_id of its post, whatever createPost, editPost, deletePost and
\* putLike calls came before, and no step changes the creator_id of a post
\* that stays stored.
C20_NoSelfReaction ==
    [][/\ NoSelfReaction(posts', likes_dislikes')
       /\ \A id \in PostIds :
             (posts[id] # NULL /\ posts'[id] # NULL)
             => posts'[id].creator_id = posts[id].creator_id]_vars

\* the creator of a post that was deleted and created again by another
\* user, edited since and holding the reaction of its first creator, has
\* just been refused a reaction to it
C20_Witness ==
    /\ last.op = "putLike"
    /\ last.status = BadRequestError
    /\ last.message = "O usuario nao pode reagir ao proprio post."
    /\ posts["p001"] # NULL
    /\ posts["p001"].creator_id = "u003"
    /\ posts["p001"].updated_at # NoTime
    /\ rowsOf(likes_dislikes, "u001", "p001") = 1

====
